---- MODULE Spec2Model ----
(***************************************************************************)
(* Model of libs/colorwheel.py (PyDPainter): the HSV wheel renderer and    *)
(* its per-radius cache, the ColorWheelGadget widget, and the modal        *)
(* colorwheel_req() selection loop.                                        *)
(*                                                                         *)
(* Python floats are modelled as fixed-point numbers with unit One; the    *)
(* values are exact on the axes and diagonals and otherwise within one     *)
(* unit per colour channel of what the interpreter computes.               *)
(* Python's None is the empty tuple.                                       *)
(***************************************************************************)
EXTENDS Integers, Sequences, FiniteSets, TLC

VARIABLES WHEEL_CACHE, surfaces, wheel_gadget, gevents, pixel_req_rect,
          pc, running, selected, prr_backup, req_rect, initial_rgb,
          exit_by, ret, screen, redrawn

vars == <<WHEEL_CACHE, surfaces, wheel_gadget, gevents, pixel_req_rect,
          pc, running, selected, prr_backup, req_rect, initial_rgb,
          exit_by, ret, screen, redrawn>>

None == <<>>

\* ------------------------------------------------------------------ bounds
\* Largest radius a host constructs a ColorWheelGadget with.
MaxRadius == 2
\* Stand-in for the dialog's wheel radius (88 in the source), scaled down so
\* that the wheel buffer can be enumerated pixel by pixel.
ReqRadius == 2
\* Pointer positions range this many pixels beyond the gadget's rectangle.
Margin == 1

\* ------------------------------------------------------- fixed-point floats
\* 1.0
One == 1000

\* 6 * ((math.atan2(-dy, dx) % (2*pi)) / (2*pi)) in units of 1/One, indexed
\* [dy + k + 1][dx + k + 1] for -k <= dx, dy <= k.
HueTable ==
  <<
    <<2250, 2144, 2016, 1863, 1688, 1500, 1311, 1136,  983,  855,  750>>,
    <<2355, 2250, 2114, 1942, 1733, 1500, 1266, 1057,  885,  750,  644>>,
    <<2483, 2385, 2250, 2061, 1807, 1500, 1192,  938,  750,  614,  516>>,
    <<2636, 2557, 2438, 2250, 1942, 1500, 1057,  750,  561,  442,  363>>,
    <<2811, 2766, 2692, 2557, 2250, 1500,  750,  442,  307,  233,  188>>,
    <<3000, 3000, 3000, 3000, 3000,    0,    0,    0,    0,    0,    0>>,
    <<3188, 3233, 3307, 3442, 3750, 4500, 5250, 5557, 5692, 5766, 5811>>,
    <<3363, 3442, 3561, 3750, 4057, 4500, 4942, 5250, 5438, 5557, 5636>>,
    <<3516, 3614, 3750, 3938, 4192, 4500, 4807, 5061, 5250, 5385, 5483>>,
    <<3644, 3750, 3885, 4057, 4266, 4500, 4733, 4942, 5114, 5250, 5355>>,
    <<3750, 3855, 3983, 4136, 4311, 4500, 4688, 4863, 5016, 5144, 5250>> >>

\* hue * 6.0 for the displacement (dx, dy)
Hue6(dx, dy) ==
  LET k == (Len(HueTable) - 1) \div 2
  IN  HueTable[dy + k + 1][dx + k + 1]

Abs(n) == IF n < 0 THEN -n ELSE n

Min(a, b) == IF a < b THEN a ELSE b

RECURSIVE SqrtSearch(_, _, _)
\* largest k in lo..hi with k*k <= n (lo*lo <= n < (hi+1)*(hi+1))
SqrtSearch(lo, hi, n) ==
  IF lo >= hi THEN lo
  ELSE LET mid == (lo + hi + 1) \div 2
       IN  IF mid * mid <= n THEN SqrtSearch(mid, hi, n)
           ELSE SqrtSearch(lo, mid - 1, n)

\* math.hypot(dx, dy), in units of 1/One, truncated
Hypot(dx, dy) ==
  SqrtSearch(0, (Abs(dx) + Abs(dy)) * One, (dx * dx + dy * dy) * One * One)

\* colorsys.hsv_to_rgb(h, s, 1.0); h6 is h*6.0; the result is in units of 1/One
HsvToRgb(h6, s) ==
  IF s = 0 THEN <<One, One, One>>
  ELSE LET v == One
           i == (h6 \div One) % 6
           f == h6 % One
           p == One - s
           q == One - (s * f) \div One
           t == One - (s * (One - f)) \div One
       IN  CASE i = 0 -> <<v, t, p>>
             [] i = 1 -> <<q, v, p>>
             [] i = 2 -> <<p, v, t>>
             [] i = 3 -> <<p, q, v>>
             [] i = 4 -> <<t, p, v>>
             [] i = 5 -> <<v, p, q>>

\* (int(r * 255), int(g * 255), int(b * 255))
ToRgb255(c) == <<(c[1] * 255) \div One, (c[2] * 255) \div One, (c[3] * 255) \div One>>

\* ----------------------------------------------------------------- renderer
\* The colour written for pixels outside the wheel.
OutsideWheel == <<0, 0, 0>>

\* pixel_outside with the circle itself excluded
pixel_outside_ge(dist, radius) == dist >= radius * One

\* `dist > radius` in _generate_wheel_surface
pixel_outside(dist, radius) == dist > radius * One

\* WheelPixel with the hue taken from atan2(dy, dx), the y axis not flipped
WheelPixel_unflipped(x, y, radius) ==
  LET dx == x - radius
      dy == y - radius
      dist == Hypot(dx, dy)
  IN  IF pixel_outside(dist, radius) THEN OutsideWheel
      ELSE LET hue6 == Hue6(dx, -dy)
               sat == Min(One, dist \div radius)
           IN  ToRgb255(HsvToRgb(hue6, sat))

\* The body of the pixel loop of _generate_wheel_surface for pixel (x, y).
WheelPixel(x, y, radius) ==
  LET dx == x - radius
      dy == y - radius
      dist == Hypot(dx, dy)
  IN  IF pixel_outside(dist, radius) THEN OutsideWheel
      ELSE LET hue6 == Hue6(dx, dy)
               sat == Min(One, dist \div radius)
           IN  ToRgb255(HsvToRgb(hue6, sat))

\* _generate_wheel_surface(radius): a surface is its side length and its
\* pixels, pix[<<x, y>>] being what set_at((x, y), ...) stored.
generate_wheel_surface(radius) ==
  LET diameter == radius * 2
  IN  [size |-> diameter,
       pix |-> [p \in (0 .. diameter - 1) \X (0 .. diameter - 1) |->
                  WheelPixel(p[1], p[2], radius)]]

\* A surface object is named by the radius it was rendered for and the serial
\* number of that rendering: surfaces[r] lists the surfaces
\* _generate_wheel_surface(r) has returned so far.
SurfaceOf(ref) == surfaces[ref[1]][ref[2]]

\* get_wheel_surface without the look-up: every call renders and inserts
get_wheel_surface_always(radius) ==
  LET ref == <<radius, Len(surfaces[radius]) + 1>>
  IN  [cache |-> [r \in DOMAIN WHEEL_CACHE \cup {radius} |->
                    IF r = radius THEN ref ELSE WHEEL_CACHE[r]],
       surfs |-> [surfaces EXCEPT ![radius] = Append(@, generate_wheel_surface(radius))],
       surf |-> ref]

\* _get_wheel_surface(radius): the cache and the surfaces after the call, and
\* the surface returned.
get_wheel_surface(radius) ==
  IF radius \notin DOMAIN WHEEL_CACHE
    THEN LET ref == <<radius, Len(surfaces[radius]) + 1>>
         IN  [cache |-> [r \in DOMAIN WHEEL_CACHE \cup {radius} |->
                           IF r = radius THEN ref ELSE WHEEL_CACHE[r]],
              surfs |-> [surfaces EXCEPT ![radius] =
                           Append(@, generate_wheel_surface(radius))],
              surf |-> ref]
    ELSE [cache |-> WHEEL_CACHE, surfs |-> surfaces, surf |-> WHEEL_CACHE[radius]]

\* ------------------------------------------------------------------- gadget
NoGadget ==
  [exists |-> FALSE, radius |-> 0, wheel_surf |-> None, need_redraw |-> FALSE,
   rect |-> None, screenrect |-> None, value |-> None, visible |-> FALSE]

\* The constructor leaving the value of the gadget before it in place
NewColorWheelGadget_keeps_value(rect, radius, surf) ==
  [exists |-> TRUE, radius |-> radius, wheel_surf |-> surf, need_redraw |-> TRUE,
   rect |-> rect, screenrect |-> rect, value |-> wheel_gadget.value,
   visible |-> FALSE]

\* ColorWheelGadget.__init__(rect, radius), given the surface the cache returned.
\* Gadget.__init__ leaves value None and screenrect equal to rect.
NewColorWheelGadget(rect, radius, surf) ==
  [exists |-> TRUE, radius |-> radius, wheel_surf |-> surf, need_redraw |-> TRUE,
   rect |-> rect, screenrect |-> rect, value |-> None, visible |-> FALSE]

\* ColorWheelGadget.draw(screen, font, offset)
draw(g, offset) ==
  LET x == g.rect[1]
      y == g.rect[2]
      w == g.rect[3]
      h == g.rect[4]
      placed == [g EXCEPT !.visible = TRUE,
                          !.screenrect = <<x + offset[1], y + offset[2], w, h>>]
  IN  IF ~g.need_redraw THEN placed
      ELSE [placed EXCEPT !.need_redraw = FALSE]

\* The default bgcolor of ColorWheelGadget.draw
bgcolor == <<160, 160, 160>>

\* The screen is the list of the drawing operations performed on it since it
\* was last repainted: screen.fill(color, rect) and screen.blit(surf, rect),
\* the latter with the top left corner the surface is copied to.
FillOp(color, rect) == [op |-> "fill", color |-> color, rect |-> rect]

BlitOp(surf, size, topleft) ==
  [op |-> "blit", surf |-> surf, rect |-> <<topleft[1], topleft[2], size, size>>]

\* skips_drawing with the flag ignored
skips_drawing_never(g) == FALSE

\* `if not self.need_redraw: return` in draw
skips_drawing(g) == ~g.need_redraw

\* What ColorWheelGadget.draw(screen, font, offset) draws: nothing unless a
\* redraw is pending, else the background and the wheel surface, whose
\* rectangle get_rect(center=...) centres on the gadget's rectangle.
draw_ops(g, offset) ==
  IF skips_drawing(g) THEN <<>>
  ELSE LET x == g.rect[1]
           y == g.rect[2]
           w == g.rect[3]
           h == g.rect[4]
           xo == offset[1]
           yo == offset[2]
           size == g.radius * 2
           centre == <<x + xo + w \div 2, y + yo + h \div 2>>
       IN  << FillOp(bgcolor, <<x + xo, y + yo, w, h>>),
              BlitOp(g.wheel_surf, size, <<centre[1] - size \div 2, centre[2] - size \div 2>>) >>

\* Gadget.pointin(coords, rect)
pointin(coords, rect) ==
  /\ coords[1] >= rect[1]
  /\ coords[2] >= rect[2]
  /\ coords[1] <= rect[1] + rect[3]
  /\ coords[2] <= rect[2] + rect[4]

\* GadgetEvent(type, event, gadget)
GadgetEvent(type, event, gadget) == [type |-> type, event |-> event, gadget |-> gadget]

\* `event.type not in (MOUSEBUTTONDOWN, MOUSEBUTTONUP)` in process_event
not_pointer_event(event) == event.type \notin {"MOUSEBUTTONDOWN", "MOUSEBUTTONUP"}

\* primary_down without the test of the button
primary_down_any_button(event) == event.type = "MOUSEBUTTONDOWN"

\* `event.type == MOUSEBUTTONDOWN and event.button == 1` in process_event
primary_down(event) == event.type = "MOUSEBUTTONDOWN" /\ event.button = 1

\* click_outside with the circle itself excluded
click_outside_ge(dist, radius) == dist >= radius * One

\* `dist > self.radius` in process_event
click_outside(dist, radius) == dist > radius * One

\* click_hue6 with dx negated in place of dy
click_hue6_mirrored(dx, dy) == Hue6(-dx, -dy)

\* hue * 6.0 in process_event: `(math.atan2(-dy, dx) % (2 * math.pi)) / (2 * math.pi)`
click_hue6(dx, dy) == Hue6(dx, dy)

\* click_sat measured from the rim inwards
click_sat_from_rim(dist, radius) == One - Min(One, dist \div radius)

\* `sat = min(1.0, dist / self.radius)` in process_event
click_sat(dist, radius) == Min(One, dist \div radius)

\* ColorWheelGadget.process_event(screen, event, mouse_pixel_mapper): the gadget
\* afterwards and the list returned.  event.pos is what mouse_pixel_mapper()
\* returns.
process_event(g, event) ==
  IF not_pointer_event(event)
    THEN [gadget |-> g, ge |-> <<>>]
  ELSE IF ~pointin(event.pos, g.screenrect)
    THEN [gadget |-> g, ge |-> <<>>]
  ELSE IF primary_down(event)
    THEN LET cx == g.screenrect[1] + g.screenrect[3] \div 2
             cy == g.screenrect[2] + g.screenrect[4] \div 2
             dx == event.pos[1] - cx
             dy == event.pos[2] - cy
             dist == Hypot(dx, dy)
         IN  IF click_outside(dist, g.radius)
               THEN [gadget |-> g, ge |-> <<>>]
               ELSE LET hue6 == click_hue6(dx, dy)
                        sat == click_sat(dist, g.radius)
                    IN  [gadget |-> [g EXCEPT !.value = ToRgb255(HsvToRgb(hue6, sat))],
                         ge |-> <<GadgetEvent("GADGETUP", event, "wheel")>>]
  ELSE [gadget |-> g, ge |-> <<>>]

\* ------------------------------------------------------------ input events
\* Offsets a host draws a gadget at.
Offsets == {<<0, 0>>, <<3, 1>>}

\* Sizes of the screen the dialog is opened on.
ScreenSizes == {<<40, 60>>, <<41, 63>>}

\* Colours a caller passes as initial_rgb.
InitialColors == {None, <<10, 20, 30>>}

\* Values of config.pixel_req_rect before a dialog is opened.
HostRects == {None, <<0, 0, 5, 5>>}

Buttons == {1, 3}

\* Pointer-button events with the pointer anywhere on or around rect.
PointerEvents(rect) ==
  [type : {"MOUSEBUTTONDOWN", "MOUSEBUTTONUP"},
   button : Buttons,
   pos : (rect[1] - Margin .. rect[1] + rect[3] + Margin)
           \X (rect[2] - Margin .. rect[2] + rect[4] + Margin),
   over : {"none"}]

\* Events of other types, delivered while the pointer rests on the centre of rect.
OtherEvents(rect) ==
  [type : {"MOUSEMOTION", "KEYDOWN"},
   button : {0},
   pos : {<<rect[1] + rect[3] \div 2, rect[2] + rect[4] \div 2>>},
   over : {"none"}]

\* Pointer-button events with the pointer on the OK or the Cancel gadget, which
\* lie side by side four pixels beneath the wheel's rectangle.
ControlEvents(rect) ==
  {[type |-> t, button |-> b, over |-> o,
    pos |-> <<IF o = "ok" THEN rect[1] ELSE rect[1] + rect[3], rect[2] + rect[4] + 4>>] :
     t \in {"MOUSEBUTTONDOWN", "MOUSEBUTTONUP"}, b \in Buttons, o \in {"ok", "cancel"}}

\* ------------------------------------------------------------------ toolkit
\* req.fonty, the height of the requestor's font
fonty == 8

\* Gadget.process_event of a TYPE_BOOL gadget: pressing the primary button on it
\* reports GADGETDOWN, releasing it there activates it and reports GADGETUP.
bool_process_event(name, event) ==
  IF event.over = name /\ event.button = 1
    THEN IF event.type = "MOUSEBUTTONUP"
           THEN <<GadgetEvent("GADGETUP", event, name)>>
           ELSE IF event.type = "MOUSEBUTTONDOWN"
             THEN <<GadgetEvent("GADGETDOWN", event, name)>>
             ELSE <<>>
    ELSE <<>>

\* Requestor.process_event(screen, event): the event is routed to the gadgets in
\* the order they were added, and their notifications are collected.
req_process_event(g, event) ==
  LET w == process_event(g, event)
  IN  [gadget |-> w.gadget,
       ge |-> w.ge \o bool_process_event("ok", event) \o bool_process_event("cancel", event)]

\* Requestor.draw(screen): every gadget is drawn at the requestor's position.
req_draw(g, rect) == draw(g, <<rect[1], rect[2]>>)

\* What Requestor.draw(screen) draws of the wheel gadget.
req_draw_ops(g, rect) == draw_ops(g, <<rect[1], rect[2]>>)

\* rect a lies within rect b
Within(a, b) ==
  /\ a[1] >= b[1]
  /\ a[2] >= b[2]
  /\ a[1] + a[3] <= b[1] + b[3]
  /\ a[2] + a[4] <= b[2] + b[4]

RECURSIVE KeepWithin(_, _)
\* The operations of scr that drew within the rectangle reserved.
KeepWithin(scr, reserved) ==
  IF scr = <<>> THEN <<>>
  ELSE IF Within(Head(scr).rect, reserved)
         THEN <<Head(scr)>> \o KeepWithin(Tail(scr), reserved)
         ELSE KeepWithin(Tail(scr), reserved)

\* config.recompose(): the host repaints the screen except for the region
\* config.pixel_req_rect reserves.
recompose(scr, reserved) ==
  IF reserved = None THEN <<>> ELSE KeepWithin(scr, reserved)

\* ------------------------------------------------------------------ session
\* `ge.gadget == wheel_gadget and isinstance(wheel_gadget.value, tuple)`
wheel_clicked(ge, value) == ge.gadget = "wheel" /\ value # None

\* wheel_branch without `running = False`
wheel_branch_running(value, sel) == [selected |-> value, running |-> TRUE, by |-> "none"]

\* The branch of the for loop taken for a notification of the wheel.
wheel_branch(value, sel) == [selected |-> value, running |-> FALSE, by |-> "wheel"]

\* The branch of the for loop taken for a notification of the OK gadget.
ok_branch(value, sel) ==
  [selected |-> IF value # None THEN value ELSE sel, running |-> FALSE, by |-> "ok"]

\* cancel_branch selecting the gadget's value as the OK branch does
cancel_branch_value(value, sel) ==
  [selected |-> IF value # None THEN value ELSE sel, running |-> FALSE, by |-> "cancel"]

\* The branch of the for loop taken for a notification of the Cancel gadget.
cancel_branch(value, sel) == [selected |-> None, running |-> FALSE, by |-> "cancel"]

\* is_gadgetup taking a notification of any type
is_gadgetup_any_type(ge) == TRUE

\* `ge.type == GadgetEvent.TYPE_GADGETUP`
is_gadgetup(ge) == ge.type = "GADGETUP"

RECURSIVE for_ge_no_break(_, _, _, _)
\* for_ge without the `break`s: the whole batch is gone through
for_ge_no_break(ges, i, value, sel) ==
  IF i > Len(ges) THEN [selected |-> sel, running |-> TRUE, by |-> "none"]
  ELSE LET ge == ges[i]
           here == IF ~is_gadgetup(ge) THEN [selected |-> sel, running |-> TRUE, by |-> "none"]
                   ELSE IF wheel_clicked(ge, value) THEN wheel_branch(value, sel)
                   ELSE IF ge.gadget = "ok" THEN ok_branch(value, sel)
                   ELSE IF ge.gadget = "cancel" THEN cancel_branch(value, sel)
                   ELSE [selected |-> sel, running |-> TRUE, by |-> "none"]
           rest == for_ge_no_break(ges, i + 1, value, here.selected)
       IN  IF rest.by # "none" THEN rest ELSE here

RECURSIVE for_ge(_, _, _, _)
\* The for loop of colorwheel_req over gevents[i..], with the gadget's value
\* and the current `selected`: the values of selected and running after it, and
\* the branch that left it.
for_ge(ges, i, value, sel) ==
  IF i > Len(ges) THEN [selected |-> sel, running |-> TRUE, by |-> "none"]
  ELSE LET ge == ges[i]
       IN  IF is_gadgetup(ge)
             THEN IF wheel_clicked(ge, value) THEN wheel_branch(value, sel)
                  ELSE IF ge.gadget = "ok" THEN ok_branch(value, sel)
                  ELSE IF ge.gadget = "cancel" THEN cancel_branch(value, sel)
                  ELSE for_ge(ges, i + 1, value, sel)
             ELSE for_ge(ges, i + 1, value, sel)

\* The dialog rectangle colorwheel_req computes for a screen of the given size.
ReqRect(size) ==
  LET wheel_size == ReqRadius * 2
      req_w == wheel_size + 16
      req_h == wheel_size + 40
  IN  <<(size[1] - req_w) \div 2, (size[2] - req_h) \div 2, req_w, req_h>>

\* seed without the assignment
seed_nothing(g, initial) == g

\* `if initial_rgb is not None: wheel_gadget.value = initial_rgb`
seed(g, initial) == IF initial # None THEN [g EXCEPT !.value = initial] ELSE g

\* restored_rect skipped when the dialog was cancelled
restored_rect_unless_cancelled(backup) ==
  IF exit_by = "cancel" THEN pixel_req_rect ELSE backup

\* The value colorwheel_req stores back into config.pixel_req_rect at its end.
restored_rect(backup) == backup

\* loop_redraws with the redraw inside an `if running:`
loop_redraws_if_running(still_running) == still_running

\* Whether an iteration of the loop that leaves `running` as given runs the
\* repaint and the redraw of the dialog at its end.
loop_redraws(still_running) == TRUE

\* wheel_rect of colorwheel_req
WheelRect == <<8, 8 + fonty, ReqRadius * 2, ReqRadius * 2>>

\* ---------------------------------------------------------------- the state
Init ==
  /\ WHEEL_CACHE = <<>>
  /\ surfaces = [r \in 1 .. (IF MaxRadius > ReqRadius THEN MaxRadius ELSE ReqRadius) |-> <<>>]
  /\ wheel_gadget = NoGadget
  /\ gevents = <<>>
  /\ pixel_req_rect \in HostRects
  /\ pc = "idle"
  /\ running = FALSE
  /\ selected = None
  /\ prr_backup = None
  /\ req_rect = None
  /\ initial_rgb = None
  /\ exit_by = "none"
  /\ ret = None
  /\ screen = <<>>
  /\ redrawn = FALSE

\* A host constructs a ColorWheelGadget of its own.
NewGadget(radius) ==
  /\ pc = "idle"
  /\ LET got == get_wheel_surface(radius)
     IN  /\ WHEEL_CACHE' = got.cache
         /\ surfaces' = got.surfs
         /\ wheel_gadget' = NewColorWheelGadget(<<0, 0, radius * 2, radius * 2>>, radius, got.surf)
  /\ screen' = <<>>
  /\ UNCHANGED <<gevents, pixel_req_rect, pc, running, selected, prr_backup, req_rect,
                 initial_rgb, exit_by, ret, redrawn>>

\* The host draws its gadget.
GadgetDraw(offset) ==
  /\ pc = "idle"
  /\ wheel_gadget.exists
  /\ wheel_gadget' = draw(wheel_gadget, offset)
  /\ screen' = screen \o draw_ops(wheel_gadget, offset)
  /\ UNCHANGED <<WHEEL_CACHE, surfaces, gevents, pixel_req_rect, pc, running,
                 selected, prr_backup, req_rect, initial_rgb, exit_by, ret, redrawn>>

\* The host passes an event to its gadget.
GadgetProcessEvent(event) ==
  /\ pc = "idle"
  /\ wheel_gadget.exists
  /\ LET res == process_event(wheel_gadget, event)
     IN  /\ wheel_gadget' = res.gadget
         /\ gevents' = res.ge
  /\ UNCHANGED <<WHEEL_CACHE, surfaces, pixel_req_rect, pc, running, selected,
                 prr_backup, req_rect, initial_rgb, exit_by, ret, screen, redrawn>>

\* colorwheel_req(screen, config, initial) up to the loop, called by a host at
\* rest or right after an earlier call returned.
ColorwheelReqOpen(size, initial) ==
  /\ pc \in {"idle", "returned"}
  /\ LET rect == ReqRect(size)
         got == get_wheel_surface(ReqRadius)
         made == NewColorWheelGadget(WheelRect, ReqRadius, got.surf)
         seeded == seed(made, initial)
     IN  /\ req_rect' = rect
         /\ prr_backup' = pixel_req_rect
         /\ pixel_req_rect' = rect
         /\ WHEEL_CACHE' = got.cache
         /\ surfaces' = got.surfs
         /\ wheel_gadget' = req_draw(seeded, rect)
         /\ screen' = recompose(screen, rect) \o req_draw_ops(seeded, rect)
  /\ redrawn' = TRUE
  /\ initial_rgb' = initial
  /\ gevents' = <<>>
  /\ selected' = None
  /\ running' = TRUE
  /\ exit_by' = "none"
  /\ pc' = "loop"
  /\ UNCHANGED ret

\* One iteration of the while loop: wait for an event, process it, redraw.
LoopIteration(event) ==
  /\ pc = "loop"
  /\ LET res == req_process_event(wheel_gadget, event)
         out == for_ge(res.ge, 1, res.gadget.value, selected)
     IN  /\ gevents' = res.ge
         /\ selected' = out.selected
         /\ running' = out.running
         /\ exit_by' = out.by
         /\ redrawn' = loop_redraws(out.running)
         /\ wheel_gadget' = IF loop_redraws(out.running)
                               THEN req_draw(res.gadget, req_rect) ELSE res.gadget
         /\ screen' = IF loop_redraws(out.running)
                         THEN recompose(screen, pixel_req_rect)
                                \o req_draw_ops(res.gadget, req_rect)
                         ELSE screen
         /\ pc' = IF out.running THEN "loop" ELSE "exit"
  /\ UNCHANGED <<WHEEL_CACHE, surfaces, pixel_req_rect, prr_backup, req_rect,
                 initial_rgb, ret>>

\* After the loop: restore pixel_req_rect, have the host repaint, and return
\* selected.  The gadget of the call is garbage from here on.
ColorwheelReqReturn ==
  /\ pc = "exit"
  /\ pixel_req_rect' = restored_rect(prr_backup)
  /\ ret' = selected
  /\ pc' = "returned"
  /\ screen' = recompose(screen, restored_rect(prr_backup))
  /\ redrawn' = FALSE
  /\ UNCHANGED <<WHEEL_CACHE, surfaces, wheel_gadget, gevents, running, selected,
                 prr_backup, req_rect, initial_rgb, exit_by>>

\* The caller takes the returned colour and carries on with other work.
CallerResume ==
  /\ pc = "returned"
  /\ pc' = "idle"
  /\ ret' = None
  /\ gevents' = <<>>
  /\ selected' = None
  /\ prr_backup' = None
  /\ req_rect' = None
  /\ initial_rgb' = None
  /\ exit_by' = "none"
  /\ wheel_gadget' = NoGadget
  /\ UNCHANGED <<WHEEL_CACHE, surfaces, pixel_req_rect, running, screen, redrawn>>

Next ==
  \/ \E radius \in 1 .. MaxRadius : NewGadget(radius)
  \/ \E offset \in Offsets : GadgetDraw(offset)
  \/ /\ wheel_gadget.exists
     /\ \E event \in PointerEvents(wheel_gadget.screenrect) \cup OtherEvents(wheel_gadget.screenrect) :
          GadgetProcessEvent(event)
  \/ \E size \in ScreenSizes, initial \in InitialColors : ColorwheelReqOpen(size, initial)
  \/ /\ wheel_gadget.exists
     /\ \E event \in PointerEvents(wheel_gadget.screenrect) \cup OtherEvents(wheel_gadget.screenrect)
                       \cup ControlEvents(wheel_gadget.screenrect) :
          LoopIteration(event)
  \/ ColorwheelReqReturn
  \/ CallerResume

Spec == Init /\ [][Next]_vars

\* ------------------------------------------------- batches of any content
\* The number of further notifications a batch holds before, and after, those
\* of the wheel.
MaxExtra == 1

\* Sequences of at most n elements of S
SeqsUpTo(S, n) == UNION {[1 .. k -> S] : k \in 0 .. n}

\* Notifications the OK and the Cancel gadget can add to the batch of event:
\* the activation of either, and the press of OK.
ControlNotifications(event) ==
  {GadgetEvent("GADGETUP", event, "ok"), GadgetEvent("GADGETUP", event, "cancel"),
   GadgetEvent("GADGETDOWN", event, "ok")}

\* A primary-button press at the centre of rect and one at its corner, and a
\* key.
BatchEvents(rect) ==
  {e \in PointerEvents(rect) :
     /\ e.type = "MOUSEBUTTONDOWN"
     /\ e.button = 1
     /\ e.pos \in {<<rect[1], rect[2]>>, <<rect[1] + rect[3] \div 2, rect[2] + rect[4] \div 2>>}}
  \cup {e \in OtherEvents(rect) : e.type = "KEYDOWN"}

\* One iteration of the while loop when req.process_event returns the wheel's
\* notifications with those of pre before and those of post after them.
LoopIterationBatch(event, pre, post) ==
  /\ pc = "loop"
  /\ LET res == process_event(wheel_gadget, event)
         batch == pre \o res.ge \o post
         out == for_ge(batch, 1, res.gadget.value, selected)
     IN  /\ gevents' = batch
         /\ selected' = out.selected
         /\ running' = out.running
         /\ exit_by' = out.by
         /\ redrawn' = loop_redraws(out.running)
         /\ wheel_gadget' = IF loop_redraws(out.running)
                               THEN req_draw(res.gadget, req_rect) ELSE res.gadget
         /\ screen' = IF loop_redraws(out.running)
                         THEN recompose(screen, pixel_req_rect)
                                \o req_draw_ops(res.gadget, req_rect)
                         ELSE screen
         /\ pc' = IF out.running THEN "loop" ELSE "exit"
  /\ UNCHANGED <<WHEEL_CACHE, surfaces, pixel_req_rect, prr_backup, req_rect,
                 initial_rgb, ret>>

NextAnyBatch ==
  \/ \E size \in ScreenSizes, initial \in InitialColors : ColorwheelReqOpen(size, initial)
  \/ /\ wheel_gadget.exists
     /\ \E event \in BatchEvents(wheel_gadget.screenrect) :
          \E pre \in SeqsUpTo(ControlNotifications(event), MaxExtra),
             post \in SeqsUpTo(ControlNotifications(event), MaxExtra) :
            LoopIterationBatch(event, pre, post)
  \/ ColorwheelReqReturn
  \/ CallerResume

\* The dialog alone, with batches of any content.
SpecAnyBatch == Init /\ [][NextAnyBatch]_vars

\* ------------------------------------------------------------ the session
\* The outcome of the session: Pending while the loop runs, then Committed(c)
\* or Cancelled by the branch that stopped it.
IsUp(ge, name) == ge.type = "GADGETUP" /\ ge.gadget = name

\* The batch holds a notification of gadget `name` that no stopping
\* notification precedes.
Decides(ges, name) ==
  \E i \in DOMAIN ges :
    /\ IsUp(ges[i], name)
    /\ \A j \in 1 .. i - 1 : ~(\E n \in {"wheel", "ok", "cancel"} : IsUp(ges[j], n))

\* C1: in colorwheel_req, an event that makes the wheel emit GADGETUP ends the
\* loop in that iteration with selected = the colour the gadget stored for the
\* click, and that colour is what colorwheel_req returns: no later event is
\* processed in between.
C1_WheelClickCommits ==
  [][/\ (pc = "loop" /\ \E i \in DOMAIN gevents' : IsUp(gevents'[i], "wheel"))
          => /\ pc' = "exit"
             /\ ~running'
             /\ exit_by' = "wheel"
             /\ selected' # None
             /\ selected' = wheel_gadget'.value
     /\ (pc = "exit" /\ exit_by = "wheel")
          => /\ pc' = "returned"
             /\ ret' = selected
             /\ ret' # None]_vars

C1_Witness == pc = "returned" /\ exit_by = "wheel" /\ ret # None /\ ret # initial_rgb

\* C2: opened without an initial colour and with no wheel click so far, an
\* activation of the OK gadget leaves the session pending: the loop goes on
\* and nothing is selected.
C2_ConfirmWithoutSelectionIsNoop ==
  [][(/\ pc = "loop"
      /\ initial_rgb = None
      /\ wheel_gadget.value = None
      /\ Decides(gevents', "ok"))
       => (pc' = "loop" /\ running' /\ selected' = None)]_vars

\* C3: an activation of the Cancel gadget in a pending session ends it with
\* nothing selected and colorwheel_req returns None, whatever the gadget's
\* value is.
C3_CancelReturnsNone ==
  [][/\ (pc = "loop" /\ Decides(gevents', "cancel"))
          => /\ pc' = "exit"
             /\ ~running'
             /\ exit_by' = "cancel"
             /\ selected' = None
     /\ (pc = "exit" /\ exit_by = "cancel")
          => /\ pc' = "returned"
             /\ ret' = None]_vars

C3_Witness ==
  pc = "exit" /\ exit_by = "cancel" /\ wheel_gadget.value # None /\ selected = None

\* C4: an initial colour is stored as the gadget's value before the first
\* event, and an activation of the OK gadget before any wheel click ends the
\* session with that colour selected and returned.
C4_ConfirmReturnsInitial ==
  [][/\ (pc = "idle" /\ pc' = "loop" /\ initial_rgb' # None)
          => wheel_gadget'.value = initial_rgb'
     /\ (pc = "loop" /\ initial_rgb # None /\ Decides(gevents', "ok"))
          => /\ pc' = "exit"
             /\ exit_by' = "ok"
             /\ selected' = initial_rgb
     /\ (pc = "exit" /\ exit_by = "ok" /\ initial_rgb # None)
          => /\ pc' = "returned"
             /\ ret' = initial_rgb]_vars

C4_Witness == pc = "returned" /\ exit_by = "ok" /\ initial_rgb # None /\ ret = initial_rgb

C6_NoneIffCancelled == pc = "returned" => (ret = None <=> exit_by = "cancel")

\* ------------------------------------------------------------- the gadget
\* The displacement of a pointer position from the centre of rect.
Displacement(pos, rect) ==
  <<pos[1] - (rect[1] + rect[3] \div 2), pos[2] - (rect[2] + rect[4] \div 2)>>

\* Every event a gadget placed at rect is given in this model.
AllEvents(rect) == PointerEvents(rect) \cup OtherEvents(rect) \cup ControlEvents(rect)

\* C7: a primary-button pointer-down within the gadget's rectangle, displaced
\* by (dx, dy) from its centre, sets the value and yields one notification if
\* dx*dx + dy*dy <= radius*radius, and otherwise changes nothing and yields no
\* notification.
C7_HitTestBoundary ==
  wheel_gadget.exists =>
    \A event \in PointerEvents(wheel_gadget.screenrect) :
      (/\ event.type = "MOUSEBUTTONDOWN"
       /\ event.button = 1
       /\ pointin(event.pos, wheel_gadget.screenrect))
        => LET d == Displacement(event.pos, wheel_gadget.screenrect)
               res == process_event(wheel_gadget, event)
           IN  IF d[1] * d[1] + d[2] * d[2] <= wheel_gadget.radius * wheel_gadget.radius
                 THEN /\ Len(res.ge) = 1
                      /\ IsUp(res.ge[1], "wheel")
                      /\ res.gadget.value # None
                 ELSE /\ res.ge = <<>>
                      /\ res.gadget = wheel_gadget

\* A click at a distance of exactly the radius has been accepted.
C7_Witness ==
  /\ wheel_gadget.exists
  /\ wheel_gadget.value # None
  /\ Len(gevents) = 1
  /\ IsUp(gevents[1], "wheel")
  /\ LET d == Displacement(gevents[1].event.pos, wheel_gadget.screenrect)
     IN  d[1] * d[1] + d[2] * d[2] = wheel_gadget.radius * wheel_gadget.radius

\* C8: process_event changes the gadget and yields a notification only for a
\* primary-button pointer-down inside the circle; for every other event the
\* gadget is as before and the list returned is empty.
C8_OnlyPrimaryDownInCircle ==
  wheel_gadget.exists =>
    \A event \in AllEvents(wheel_gadget.screenrect) :
      LET d == Displacement(event.pos, wheel_gadget.screenrect)
          res == process_event(wheel_gadget, event)
      IN  (res.ge # <<>> \/ res.gadget # wheel_gadget)
            => /\ event.type = "MOUSEBUTTONDOWN"
               /\ event.button = 1
               /\ pointin(event.pos, wheel_gadget.screenrect)
               /\ d[1] * d[1] + d[2] * d[2] <= wheel_gadget.radius * wheel_gadget.radius

\* An event was ignored by a gadget that holds a value: the value is still
\* there and the list returned was empty.
C8_Witness ==
  pc = "idle" /\ wheel_gadget.exists /\ wheel_gadget.value # None /\ gevents = <<>>

\* ----------------------------------------------------------- the renderer
\* A colour of the wheel: value 1.0, so its largest channel is 255.
IsWheelColor(c) == c[1] = 255 \/ c[2] = 255 \/ c[3] = 255

\* C9: the surface rendered for a radius is a square of side 2*radius whose
\* every pixel (x, y) holds a wheel colour if (x-radius)^2 + (y-radius)^2 <=
\* radius^2 and the out-of-wheel colour otherwise.
C9_WheelSurface ==
  \A r \in DOMAIN surfaces : \A n \in DOMAIN surfaces[r] :
    LET surf == surfaces[r][n]
    IN  /\ surf.size = 2 * r
        /\ DOMAIN surf.pix = (0 .. 2 * r - 1) \X (0 .. 2 * r - 1)
        /\ \A p \in DOMAIN surf.pix :
             IF (p[1] - r) * (p[1] - r) + (p[2] - r) * (p[2] - r) <= r * r
               THEN IsWheelColor(surf.pix[p]) /\ surf.pix[p] # OutsideWheel
               ELSE surf.pix[p] = OutsideWheel

\* A surface has been rendered that has pixels on the circle and beyond it.
C9_Witness ==
  \E r \in DOMAIN surfaces :
    /\ Len(surfaces[r]) > 0
    /\ surfaces[r][1].pix[<<0, r>>] # OutsideWheel
    /\ surfaces[r][1].pix[<<0, 0>>] = OutsideWheel

\* C10: the renderer runs at most once for a radius, every gadget holds the
\* very surface the cache holds for its radius, and an entry of the cache is
\* never removed or replaced.
C10_RenderedOncePerRadius ==
  [][/\ \A r \in DOMAIN surfaces' : Len(surfaces'[r]) <= 1
     /\ \A r \in DOMAIN WHEEL_CACHE :
          /\ r \in DOMAIN WHEEL_CACHE'
          /\ WHEEL_CACHE'[r] = WHEEL_CACHE[r]
          /\ SurfaceOf(WHEEL_CACHE[r])' = SurfaceOf(WHEEL_CACHE[r])
     /\ wheel_gadget'.exists
          => /\ wheel_gadget'.radius \in DOMAIN WHEEL_CACHE'
             /\ wheel_gadget'.wheel_surf = WHEEL_CACHE'[wheel_gadget'.radius]]_vars

\* A gadget was clicked and then another one constructed, and only one radius
\* has ever been rendered: the second construction found the surface cached.
C10_Witness ==
  /\ pc = "idle"
  /\ wheel_gadget.exists
  /\ wheel_gadget.need_redraw
  /\ wheel_gadget.value = None
  /\ gevents # <<>>
  /\ DOMAIN WHEEL_CACHE = {wheel_gadget.radius}

\* --------------------------------------------------------- the colours
\* A press of the primary button at the displacement d from the centre of rect.
PrimaryDownAt(d, rect) ==
  [type |-> "MOUSEBUTTONDOWN", button |-> 1, over |-> "none",
   pos |-> <<rect[1] + rect[3] \div 2 + d[1], rect[2] + rect[4] \div 2 + d[2]>>]

\* C11: a press of the primary button exactly on the centre of a gadget sets
\* its value to (255, 255, 255) and yields one GADGETUP notification, for
\* every radius.
C11_CentreClickIsWhite ==
  wheel_gadget.exists =>
    LET res == process_event(wheel_gadget, PrimaryDownAt(<<0, 0>>, wheel_gadget.screenrect))
    IN  /\ res.gadget.value = <<255, 255, 255>>
        /\ Len(res.ge) = 1
        /\ IsUp(res.ge[1], "wheel")

\* The gadget was clicked on its centre and holds white.
C11_Witness ==
  /\ wheel_gadget.exists
  /\ Len(gevents) = 1
  /\ IsUp(gevents[1], "wheel")
  /\ Displacement(gevents[1].event.pos, wheel_gadget.screenrect) = <<0, 0>>
  /\ wheel_gadget.value = <<255, 255, 255>>

\* C12: on a gadget whose rectangle is the square of side 2*radius, a press of
\* the primary button on the rim due east of the centre is accepted and sets
\* the value to (255, 0, 0); one on the rim due west sets it to (0, 255, 255).
C12_RimClicksEastWest ==
  (/\ wheel_gadget.exists
   /\ wheel_gadget.screenrect[3] = 2 * wheel_gadget.radius
   /\ wheel_gadget.screenrect[4] = 2 * wheel_gadget.radius)
    => LET r == wheel_gadget.radius
           east == process_event(wheel_gadget, PrimaryDownAt(<<r, 0>>, wheel_gadget.screenrect))
           west == process_event(wheel_gadget, PrimaryDownAt(<<-r, 0>>, wheel_gadget.screenrect))
       IN  /\ Len(east.ge) = 1
           /\ IsUp(east.ge[1], "wheel")
           /\ east.gadget.value = <<255, 0, 0>>
           /\ Len(west.ge) = 1
           /\ IsUp(west.ge[1], "wheel")
           /\ west.gadget.value = <<0, 255, 255>>

\* The dialog was closed by a click on the rim due east, with red selected.
C12_Witness ==
  /\ pc = "exit"
  /\ exit_by = "wheel"
  /\ Displacement(gevents[1].event.pos, wheel_gadget.screenrect) = <<wheel_gadget.radius, 0>>
  /\ selected = <<255, 0, 0>>

\* ------------------------------------------------------ the loop's exits
\* A notification that stops the loop: GADGETUP of the wheel, OK or Cancel.
Stops(ge) == \E n \in {"wheel", "ok", "cancel"} : IsUp(ge, n)

BlitCount(scr) == Cardinality({i \in DOMAIN scr : scr[i].op = "blit"})

\* C14: need_redraw is set when a gadget is constructed, the first draw clears
\* it and nothing sets it again, so a gadget is filled and blitted at most
\* once; every draw, drawing or not, places the gadget's screenrect.
C14_DrawnOnce ==
  [][/\ BlitCount(screen') <= 1
     /\ (wheel_gadget'.exists /\ pc' \in {"idle", "loop", "exit"})
          => (wheel_gadget'.need_redraw <=> BlitCount(screen') = 0)
     /\ (wheel_gadget.exists /\ ~wheel_gadget.need_redraw /\ wheel_gadget'.need_redraw)
          => (wheel_gadget'.value = None /\ screen' = <<>> /\ wheel_gadget'.screenrect = wheel_gadget'.rect)
     /\ \A offset \in Offsets :
          GadgetDraw(offset)
            => /\ ~wheel_gadget'.need_redraw
               /\ BlitCount(screen') = 1
               /\ (~wheel_gadget.need_redraw => screen' = screen)
               /\ wheel_gadget'.screenrect =
                    <<wheel_gadget.rect[1] + offset[1], wheel_gadget.rect[2] + offset[2],
                      wheel_gadget.rect[3], wheel_gadget.rect[4]>>]_vars

\* A gadget was drawn, then drawn again somewhere else: it was filled and
\* blitted once, where it first was, and its screenrect is where it is now.
C14_Witness ==
  /\ wheel_gadget.exists
  /\ ~wheel_gadget.need_redraw
  /\ BlitCount(screen) = 1
  /\ screen[1].op = "fill"
  /\ screen[1].rect # wheel_gadget.screenrect

RECURSIVE ScreenPixel(_, _)
\* The colour the drawing operations of scr leave at the position pos, None
\* where none of them drew: a fill paints its rectangle in its colour, a blit
\* copies every pixel of its surface.
ScreenPixel(scr, pos) ==
  IF scr = <<>> THEN None
  ELSE LET last == scr[Len(scr)]
           before == SubSeq(scr, 1, Len(scr) - 1)
           covers == /\ pos[1] >= last.rect[1] /\ pos[1] < last.rect[1] + last.rect[3]
                     /\ pos[2] >= last.rect[2] /\ pos[2] < last.rect[2] + last.rect[4]
       IN  IF ~covers THEN ScreenPixel(before, pos)
           ELSE IF last.op = "fill" THEN last.color
           ELSE SurfaceOf(last.surf).pix[<<pos[1] - last.rect[1], pos[2] - last.rect[2]>>]

\* C15: once draw has filled the background and blitted the wheel, the pixels
\* of the surface that lie outside the wheel show the background colour on
\* the screen, not the colour the renderer wrote for them.
C15_BackgroundShowsAroundWheel ==
  \A i \in DOMAIN screen :
    screen[i].op = "blit"
      => \A p \in DOMAIN SurfaceOf(screen[i].surf).pix :
           SurfaceOf(screen[i].surf).pix[p] = OutsideWheel
             => ScreenPixel(screen, <<screen[i].rect[1] + p[1], screen[i].rect[2] + p[2]>>) = bgcolor

\* C16: every opening of the dialog starts from a fresh widget.  Its value is
\* this call's initial colour (None when there is none), whatever the widget
\* of an earlier session held and however that session ended; it has just
\* been drawn for the first time at the new dialog's position, the session
\* is pending, and what the cache held before the opening it still holds.
C16_FreshWidgetPerOpening ==
  [][(pc \in {"idle", "returned"} /\ pc' = "loop")
       => /\ wheel_gadget' =
               [exists |-> TRUE, radius |-> ReqRadius,
                wheel_surf |-> WHEEL_CACHE'[ReqRadius], need_redraw |-> FALSE,
                rect |-> WheelRect,
                screenrect |-> <<WheelRect[1] + req_rect'[1], WheelRect[2] + req_rect'[2],
                                 WheelRect[3], WheelRect[4]>>,
                value |-> initial_rgb', visible |-> TRUE]
          /\ BlitCount(screen') = 1
          /\ selected' = None /\ running' /\ exit_by' = "none" /\ gevents' = <<>>
          /\ \A r \in DOMAIN WHEEL_CACHE :
               /\ r \in DOMAIN WHEEL_CACHE'
               /\ WHEEL_CACHE'[r] = WHEEL_CACHE[r]]_vars

\* A session was opened with no initial colour right after one that returned
\* a clicked colour: the new widget holds no value.
C16_Witness ==
  /\ pc = "loop"
  /\ exit_by = "none"
  /\ ret # None
  /\ initial_rgb = None
  /\ wheel_gadget.value = None
  /\ gevents = <<>>

\* C17: an iteration of the session loop runs the host repaint and the
\* redraw of the dialog exactly when it leaves the session running; the
\* iteration that stops the session runs neither.
C17_RedrawOnlyWhileRunning ==
  [][pc = "loop" => (redrawn' <=> pc' = "loop")]_vars

\* C17, amended: every iteration of the session loop, the one that stops the
\* session included, ends with the host repaint followed by the redraw of
\* the dialog, which leaves the wheel drawn at the dialog's position.
C17_RedrawEveryIteration ==
  [][pc = "loop"
       => /\ redrawn'
          /\ wheel_gadget'.visible
          /\ ~wheel_gadget'.need_redraw
          /\ wheel_gadget'.screenrect[1] = WheelRect[1] + req_rect[1]
          /\ wheel_gadget'.screenrect[2] = WheelRect[2] + req_rect[2]
          /\ BlitCount(screen') = 1]_vars

\* The iteration that stopped the session has repainted and redrawn.
C17_Witness == pc = "exit" /\ ~running /\ redrawn /\ exit_by # "none"

\* The position in ges of its first stopping notification
FirstStop(ges) ==
  CHOOSE i \in DOMAIN ges :
    Stops(ges[i]) /\ \A j \in 1 .. i - 1 : ~Stops(ges[j])

\* C18: the first stopping notification of a batch decides the outcome,
\* whatever follows it in the batch; once the outcome is set the loop takes
\* no further event, and the next thing that happens is the return of the
\* very value set at that moment.
C18_TerminalIsAbsorbing ==
  [][/\ (pc = "loop" /\ pc' = "exit")
          => LET first == gevents'[FirstStop(gevents')].gadget
             IN  /\ exit_by' = first
                 /\ selected' = IF first = "cancel" THEN None ELSE wheel_gadget'.value
     /\ pc = "exit"
          => /\ pc' \in {"exit", "returned"}
             /\ UNCHANGED <<selected, exit_by, gevents, wheel_gadget>>
             /\ pc' = "returned" => ret' = selected]_vars

\* A session was cancelled by a batch that held an OK activation after the
\* Cancel one while the wheel held a colour, and returned None.
C18_Witness ==
  /\ pc = "returned"
  /\ Len(gevents) >= 2
  /\ IsUp(gevents[1], "cancel")
  /\ \E i \in 2 .. Len(gevents) : IsUp(gevents[i], "ok")
  /\ wheel_gadget.value # None
  /\ exit_by = "cancel"
  /\ ret = None

\* The gadget's wheel has been blitted where the gadget is placed now.
DrawnInPlace(g, scr) ==
  \E i \in DOMAIN scr :
    /\ scr[i].op = "blit"
    /\ scr[i].rect[1] = g.screenrect[1] + g.screenrect[3] \div 2 - g.radius
    /\ scr[i].rect[2] = g.screenrect[2] + g.screenrect[4] \div 2 - g.radius

\* C19: at every position where process_event accepts a click, the buffer
\* coordinates (dx + radius, dy + radius) name a pixel of the wheel buffer,
\* that pixel is inside the wheel, and its colour is the colour the click
\* stores.
C19_ClickMatchesBuffer ==
  wheel_gadget.exists =>
    \A event \in PointerEvents(wheel_gadget.screenrect) :
      LET res == process_event(wheel_gadget, event)
          d == Displacement(event.pos, wheel_gadget.screenrect)
          b == <<d[1] + wheel_gadget.radius, d[2] + wheel_gadget.radius>>
          pix == SurfaceOf(wheel_gadget.wheel_surf).pix
      IN  res.ge # <<>>
            => /\ b \in DOMAIN pix
               /\ pix[b] # OutsideWheel
               /\ res.gadget.value = pix[b]

\* C19, amended: an accepted click displaced by (dx, dy) with dx < radius and
\* dy < radius falls on an in-wheel pixel of the buffer whose colour is the
\* colour stored, and where the wheel is blitted at the gadget's place that
\* is the colour the screen shows under the pointer; the only other accepted
\* clicks are those at (radius, 0) and (0, radius), whose buffer coordinate
\* 2*radius is one past the buffer.
C19_ClickMatchesBufferInside ==
  wheel_gadget.exists =>
    \A event \in PointerEvents(wheel_gadget.screenrect) :
      LET res == process_event(wheel_gadget, event)
          d == Displacement(event.pos, wheel_gadget.screenrect)
          r == wheel_gadget.radius
          b == <<d[1] + r, d[2] + r>>
          pix == SurfaceOf(wheel_gadget.wheel_surf).pix
      IN  res.ge # <<>>
            => IF d[1] < r /\ d[2] < r
                 THEN /\ b \in DOMAIN pix
                      /\ pix[b] # OutsideWheel
                      /\ res.gadget.value = pix[b]
                      /\ DrawnInPlace(wheel_gadget, screen)
                           => ScreenPixel(screen, event.pos) = res.gadget.value
                 ELSE /\ d \in {<<r, 0>>, <<0, r>>}
                      /\ b \notin DOMAIN pix

\* The dialog's wheel was clicked off its axes and the session ended with the
\* colour the screen shows at that place.
C19_Witness ==
  /\ pc = "exit"
  /\ exit_by = "wheel"
  /\ DrawnInPlace(wheel_gadget, screen)
  /\ LET d == Displacement(gevents[1].event.pos, wheel_gadget.screenrect)
     IN  /\ d[1] # 0 /\ d[2] # 0
         /\ d[1] < wheel_gadget.radius /\ d[2] < wheel_gadget.radius
  /\ ScreenPixel(screen, gevents[1].event.pos) = selected

====
